---- MODULE Spec2Model ----
(***************************************************************************)
(* Drought monitoring dashboard: the map page (map.js, kept here as        *)
(* src/unnamed/part_000) and the prediction page (src/prediction.js).      *)
(*                                                                         *)
(* Conventions of the model                                                *)
(*  - A severity is a fixed-point number in thousandths: 2.8 is 2800.      *)
(*  - A string the code takes apart or formats (a date, a formatted        *)
(*    number) is a sequence of one-character strings.  A name that is only *)
(*    compared for equality is a TLA+ string; Spelling gives its           *)
(*    characters where the code sorts it.                                  *)
(*  - A JavaScript object is a record holding exactly the properties that  *)
(*    are present; reading a property that is absent gives undefined,      *)
(*    which is modelled by testing Has(r, f) first.                        *)
(*  - null is the record Null.                                             *)
(***************************************************************************)
EXTENDS Integers, Sequences, FiniteSets, TLC

VARIABLES
    file,               \* the resource prediction_data.json as the server holds it
    page,               \* the document that is open: each script is the only one of its page
    \* ---- map page (src/unnamed/part_000)
    map,                \* let map; Null before initMap, else [center, zoom, layers]
    droughtLayer,       \* let droughtLayer; Null or a layer group [id, markers]
    mapPredictionData,  \* let predictionData = [] of the map page
    mapPc,              \* position of loadMapPredictions
    stateOptions,       \* option values of the map page's stateSelect
    dateOptions,        \* option values of dateSelect
    dateValue,          \* dateSelect.value
    timeScaleInfo,      \* text of ".time-scale-info p"
    mapLog,             \* last console.log message of the map page
    agg,                \* locals of the last showStateMarker call at its return
    lastCall,           \* arguments read by the most recent updateMap call
    \* ---- prediction page (src/prediction.js)
    predictionData,     \* let predictionData = null
    stateDistrictMap,   \* let stateDistrictMap = {}
    predPc,             \* position of loadPredictionData
    loadingIndicator,   \* style.display of #loadingIndicator
    predStateOptions,   \* option values appended to the prediction page's stateSelect
    yearOptions,        \* option values appended to yearSelect
    predStateValue,     \* stateSelect.value of the prediction page
    districtOptions,    \* option values of districtSelect
    districtDisabled,   \* districtSelect.disabled
    resultDetails,      \* content of #resultDetails, Null before the first display
    shown,              \* the arguments of the last displayPrediction call, and whether
                        \* its prediction came from the dataset or was synthesized
    lastAlert,          \* text of the last alert()
    \* ---- severityToCategory on its own
    severityIn,         \* an argument of severityToCategory
    categoryOut         \* its result, "" before the call

mapVars == <<map, droughtLayer, mapPredictionData, mapPc, stateOptions, dateOptions,
             dateValue, timeScaleInfo, mapLog, agg, lastCall>>
predVars == <<predictionData, stateDistrictMap, predPc, loadingIndicator,
              predStateOptions, yearOptions, predStateValue, districtOptions,
              districtDisabled, resultDetails, shown, lastAlert>>
catVars == <<severityIn, categoryOut>>
vars == <<file, page, mapVars, predVars, catVars>>

Null == [null |-> TRUE]

Has(r, f) == f \in DOMAIN r

Range(s) == {s[i] : i \in 1..Len(s)}

(***************************************************************************)
(* Bounds of the model.                                                    *)
(***************************************************************************)
MaxRecords == 3        \* longest dataset the file holds
MaxSeverityArg == 5000 \* largest argument tried for severityToCategory alone
MaxDistrictChoice == 2 \* the user picks among the first districts on offer

(***************************************************************************)
(* Strings.                                                                *)
(***************************************************************************)
DigitChars == <<"0", "1", "2", "3", "4", "5", "6", "7", "8", "9">>

UpperChars == <<"A", "B", "C", "D", "E", "F", "G", "H", "I", "J", "K", "L", "M",
                "N", "O", "P", "Q", "R", "S", "T", "U", "V", "W", "X", "Y", "Z">>

LowerChars == <<"a", "b", "c", "d", "e", "f", "g", "h", "i", "j", "k", "l", "m",
                "n", "o", "p", "q", "r", "s", "t", "u", "v", "w", "x", "y", "z">>

IndexOf(seq, c) == CHOOSE i \in 1..Len(seq) : seq[i] = c

\* UTF-16 code unit of a character, the key of the default Array.prototype.sort
CodeUnit(c) ==
    IF c = " " THEN 32
    ELSE IF c = "-" THEN 45
    ELSE IF c = "." THEN 46
    ELSE IF c \in Range(DigitChars) THEN 47 + IndexOf(DigitChars, c)
    ELSE IF c \in Range(UpperChars) THEN 64 + IndexOf(UpperChars, c)
    ELSE 96 + IndexOf(LowerChars, c)

\* a < b in the order of the default sort: by code units, a proper prefix first
RECURSIVE StringLess(_, _)
StringLess(a, b) ==
    IF b = <<>> THEN FALSE
    ELSE IF a = <<>> THEN TRUE
    ELSE IF CodeUnit(Head(a)) # CodeUnit(Head(b)) THEN CodeUnit(Head(a)) < CodeUnit(Head(b))
    ELSE StringLess(Tail(a), Tail(b))

\* String(n) for an integer n >= 0
RECURSIVE NumToStr(_)
NumToStr(n) ==
    IF n < 10 THEN <<DigitChars[n + 1]>>
    ELSE NumToStr(n \div 10) \o <<DigitChars[(n % 10) + 1]>>

\* Number(s) for a string of decimal digits (Number("") is 0, Number("03") is 3)
RECURSIVE StrToNum(_)
StrToNum(s) ==
    IF s = <<>> THEN 0
    ELSE 10 * StrToNum(SubSeq(s, 1, Len(s) - 1)) + (IndexOf(DigitChars, s[Len(s)]) - 1)

\* s.split(sep) for a one-character separator
RECURSIVE Split(_, _)
Split(s, sep) ==
    IF \A i \in 1..Len(s) : s[i] # sep THEN <<s>>
    ELSE LET k == CHOOSE i \in 1..Len(s) : s[i] = sep /\ \A j \in 1..(i - 1) : s[j] # sep
         IN  <<SubSeq(s, 1, k - 1)>> \o Split(SubSeq(s, k + 1, Len(s)), sep)

\* s.padStart(n, c)
RECURSIVE PadStart(_, _, _)
PadStart(s, n, c) == IF Len(s) >= n THEN s ELSE PadStart(<<c>> \o s, n, c)

\* x.toFixed(2) of a severity x >= 0 in thousandths: nearest hundredth, the
\* larger one on a tie, printed with two decimals
ToFixed2(x) ==
    LET h == (x + 5) \div 10
    IN  NumToStr(h \div 100) \o <<".">> \o PadStart(NumToStr(h % 100), 2, "0")

Spelling ==
    "Bihar" :> <<"B", "i", "h", "a", "r">> @@
    "Kerala" :> <<"K", "e", "r", "a", "l", "a">> @@
    "Orissa" :> <<"O", "r", "i", "s", "s", "a">> @@
    "Andhra Pradesh" :> <<"A", "n", "d", "h", "r", "a", " ", "P", "r", "a", "d", "e", "s", "h">> @@
    "Maharashtra" :> <<"M", "a", "h", "a", "r", "a", "s", "h", "t", "r", "a">> @@
    "Karnataka" :> <<"K", "a", "r", "n", "a", "t", "a", "k", "a">> @@
    "Tamil Nadu" :> <<"T", "a", "m", "i", "l", " ", "N", "a", "d", "u">> @@
    "Rajasthan" :> <<"R", "a", "j", "a", "s", "t", "h", "a", "n">> @@
    "Gujarat" :> <<"G", "u", "j", "a", "r", "a", "t">> @@
    "Araria" :> <<"A", "r", "a", "r", "i", "a">> @@
    "Arwal" :> <<"A", "r", "w", "a", "l">> @@
    "Gaya" :> <<"G", "a", "y", "a">> @@
    "Idukki" :> <<"I", "d", "u", "k", "k", "i">>

\* the comparison of the default sort on two names
NameLess(a, b) == StringLess(Spelling[a], Spelling[b])

\* names.sort(): the default sort of an array of names (stable)
RECURSIVE SortNames(_)
SortNames(names) ==
    IF names = <<>> THEN <<>>
    ELSE LET front == SortNames(SubSeq(names, 1, Len(names) - 1))
             x == names[Len(names)]
             k == Cardinality({i \in 1..Len(front) : ~NameLess(x, front[i])})
         IN  SubSeq(front, 1, k) \o <<x>> \o SubSeq(front, k + 1, Len(front))

\* the values of a sequence, each once, in the order of first appearance
RECURSIVE Distinct(_)
Distinct(seq) ==
    IF seq = <<>> THEN <<>>
    ELSE LET front == Distinct(SubSeq(seq, 1, Len(seq) - 1))
         IN  IF seq[Len(seq)] \in Range(front) THEN front ELSE Append(front, seq[Len(seq)])

(***************************************************************************)
(* Map page: tables.                                                       *)
(***************************************************************************)
\* coordinates in ten-thousandths of a degree
STATE_COORDINATES ==
    "Andhra Pradesh" :> <<159129, 797400>> @@
    "Arunachal Pradesh" :> <<282180, 947278>> @@
    "Assam" :> <<262006, 929376>> @@
    "Bihar" :> <<250961, 853131>> @@
    "Chhattisgarh" :> <<212787, 818661>> @@
    "Goa" :> <<152993, 741240>> @@
    "Gujarat" :> <<222587, 711924>> @@
    "Haryana" :> <<290588, 760856>> @@
    "Himachal Pradesh" :> <<311048, 771734>> @@
    "Jharkhand" :> <<236102, 852799>> @@
    "Karnataka" :> <<153173, 757139>> @@
    "Kerala" :> <<108505, 762711>> @@
    "Madhya Pradesh" :> <<229734, 786569>> @@
    "Maharashtra" :> <<197515, 757139>> @@
    "Manipur" :> <<246637, 939063>> @@
    "Meghalaya" :> <<254670, 913662>> @@
    "Mizoram" :> <<231645, 929376>> @@
    "Nagaland" :> <<261584, 945624>> @@
    "Odisha" :> <<209517, 850985>> @@
    "Punjab" :> <<311471, 753412>> @@
    "Rajasthan" :> <<270238, 742179>> @@
    "Sikkim" :> <<275330, 885122>> @@
    "Tamil Nadu" :> <<111271, 786569>> @@
    "Telangana" :> <<181124, 790193>> @@
    "Tripura" :> <<239408, 919882>> @@
    "Uttar Pradesh" :> <<268467, 809462>> @@
    "Uttarakhand" :> <<300668, 790193>> @@
    "West Bengal" :> <<229868, 878550>> @@
    "Andaman and Nicobar Islands" :> <<117401, 926586>> @@
    "Chandigarh" :> <<307333, 767794>> @@
    "Dadra and Nagar Haveli and Daman and Diu" :> <<204283, 728397>> @@
    "Delhi" :> <<287041, 771025>> @@
    "Jammu and Kashmir" :> <<337782, 765762>> @@
    "Ladakh" :> <<341526, 775771>> @@
    "Lakshadweep" :> <<105667, 726417>> @@
    "Puducherry" :> <<119416, 798083>>

DROUGHT_COLORS ==
    "Exceptional Drought" :> "#730000" @@
    "Extreme Drought" :> "#E60000" @@
    "Severe Drought" :> "#FFAA00" @@
    "Moderate Drought" :> "#FCD37F" @@
    "Slightly Dry" :> "#FFFF00" @@
    "Near Normal" :> "#FFFFFF" @@
    "Slightly Wet" :> "#A6F28F" @@
    "Moderate Wet" :> "#00AAFF" @@
    "No Drought" :> "#4CAF50" @@
    "Mild Drought" :> "#FFEB3B"

\* DROUGHT_COLORS[category] || "#808080"
ColorOf(category) ==
    IF category \in DOMAIN DROUGHT_COLORS THEN DROUGHT_COLORS[category] ELSE "#808080"

\* severityToCategory with every bound exclusive
severityToCategoryExclusive(severity) ==
    IF severity < 800 THEN "No Drought"
    ELSE IF severity < 1800 THEN "Slightly Dry"
    ELSE IF severity < 2800 THEN "Moderate Drought"
    ELSE IF severity < 3800 THEN "Severe Drought"
    ELSE "Extreme Drought"

\* thresholds in thousandths
severityToCategory(severity) ==
    IF severity <= 800 THEN "No Drought"
    ELSE IF severity <= 1800 THEN "Slightly Dry"
    ELSE IF severity <= 2800 THEN "Moderate Drought"
    ELSE IF severity <= 3800 THEN "Severe Drought"
    ELSE "Extreme Drought"

(***************************************************************************)
(* Map page: loadMapPredictions.                                           *)
(***************************************************************************)
\* [...new Set(predictionData.map(p => p.state))].sort(): undefined sorts last,
\* and as an option value it reads "undefined"
StatesWithData(data) ==
    LET named == SelectSeq(data, LAMBDA p : Has(p, "state"))
    IN  SortNames(Distinct([i \in 1..Len(named) |-> named[i].state]))
        \o (IF \E i \in 1..Len(data) : ~Has(data[i], "state") THEN <<"undefined">> ELSE <<>>)

\* `${p.year}-${p.month}`
YmKey(p) == NumToStr(p.year) \o <<"-">> \o NumToStr(p.month)

\* p.year >= 2024 && p.year <= 2026 (false when p.year is undefined)
InDateRange(p) == Has(p, "year") /\ p.year >= 2024 /\ p.year <= 2026

\* the keys of ymSet in the order a Set keeps: first insertion
RECURSIVE YmSet(_)
YmSet(data) ==
    IF data = <<>> THEN <<>>
    ELSE LET front == YmSet(SubSeq(data, 1, Len(data) - 1))
             p == data[Len(data)]
         IN  IF InDateRange(p) /\ YmKey(p) \notin Range(front)
             THEN Append(front, YmKey(p))
             ELSE front

\* PeriodCompare as the default sort compares: the keys as text
PeriodCompareAsText(a, b) ==
    IF StringLess(a, b) THEN -1 ELSE IF StringLess(b, a) THEN 1 ELSE 0

\* the comparator (a,b) => ya*12+ma - (yb*12+mb)
PeriodCompare(a, b) ==
    LET pa == Split(a, "-")
        pb == Split(b, "-")
    IN  (StrToNum(pa[1]) * 12 + StrToNum(pa[2])) - (StrToNum(pb[1]) * 12 + StrToNum(pb[2]))

\* Array.prototype.sort with that comparator: stable
RECURSIVE SortPeriods(_)
SortPeriods(keys) ==
    IF keys = <<>> THEN <<>>
    ELSE LET front == SortPeriods(SubSeq(keys, 1, Len(keys) - 1))
             x == keys[Len(keys)]
             k == Cardinality({i \in 1..Len(front) : PeriodCompare(front[i], x) <= 0})
         IN  SubSeq(front, 1, k) \o <<x>> \o SubSeq(front, k + 1, Len(front))

\* opt.value = `${y}-${String(m).padStart(2,"0")}`
DateOptionValue(s) ==
    LET parts == Split(s, "-")
        y == StrToNum(parts[1])
        m == StrToNum(parts[2])
    IN  NumToStr(y) \o <<"-">> \o PadStart(NumToStr(m), 2, "0")

DateOptionsOf(data) ==
    LET sorted == SortPeriods(YmSet(data))
    IN  [i \in 1..Len(sorted) |-> DateOptionValue(sorted[i])]

\* dateSelect.value once the options are rebuilt: the first option, which a
\* select shows by default, unless "2026-1" is among the keys
DateValueOf(data) ==
    LET sorted == SortPeriods(YmSet(data))
    IN  IF <<"2", "0", "2", "6", "-", "1">> \in Range(sorted)
        THEN <<"2", "0", "2", "6", "-", "0", "1">>
        ELSE IF sorted = <<>> THEN <<>> ELSE DateOptionValue(sorted[1])

InitMap ==
    /\ map = Null
    /\ map' = [center |-> <<205937, 789629>>, zoom |-> 5, layers |-> {}]
    /\ mapPc' = "fetching"
    /\ mapLog' = <<"Map initialized">>
    /\ UNCHANGED <<file, page, droughtLayer, mapPredictionData, stateOptions, dateOptions,
                   dateValue, timeScaleInfo, agg, lastCall, predVars, catVars>>

\* fetch rejects, or response.json() rejects: the catch block
MapLoadThrows ==
    /\ mapPc = "fetching"
    /\ file.status \in {"unreachable", "undecodable"}
    /\ mapPc' = "failed"
    /\ mapLog' = <<"Map: error loading prediction data">>
    /\ UNCHANGED <<file, page, map, droughtLayer, mapPredictionData, stateOptions, dateOptions,
                   dateValue, timeScaleInfo, agg, lastCall, predVars, catVars>>

\* !response.ok
MapLoadBadStatus ==
    /\ mapPc = "fetching"
    /\ file.status = "badstatus"
    /\ mapPc' = "failed"
    /\ mapLog' = <<"Map: could not load prediction_data.json">>
    /\ UNCHANGED <<file, page, map, droughtLayer, mapPredictionData, stateOptions, dateOptions,
                   dateValue, timeScaleInfo, agg, lastCall, predVars, catVars>>

MapLoadSucceeds ==
    /\ mapPc = "fetching"
    /\ file.status = "ok"
    /\ mapPredictionData' = file.body
    /\ stateOptions' = <<"">> \o StatesWithData(file.body)
    /\ dateOptions' = DateOptionsOf(file.body)
    /\ dateValue' = DateValueOf(file.body)
    /\ mapLog' = <<"Map: loaded", Len(file.body), Len(StatesWithData(file.body))>>
    /\ mapPc' = "loaded"
    /\ UNCHANGED <<file, page, map, droughtLayer, timeScaleInfo, agg, lastCall, predVars, catVars>>

(***************************************************************************)
(* Map page: updateMap and showStateMarker.                                *)
(***************************************************************************)
\* const [year, month] = dateStr.split("-").map(Number)
ParseDate(dateStr) ==
    LET parts == Split(dateStr, "-")
    IN  <<StrToNum(parts[1]), StrToNum(parts[2])>>

\* MatchesSelection with the month left out of the filter
MatchesSelectionAnyMonth(p, state, year, month) ==
    /\ Has(p, "state") /\ p.state = state
    /\ Has(p, "year") /\ p.year = year

\* p.state === state && p.year === year && p.month === month
MatchesSelection(p, state, year, month) ==
    /\ Has(p, "state") /\ p.state = state
    /\ Has(p, "year") /\ p.year = year
    /\ Has(p, "month") /\ p.month = month

\* predictionData.filter(...)
StatePredictions(data, state, year, month) ==
    SelectSeq(data, LAMBDA p : MatchesSelection(p, state, year, month))

\* SortSeverities with the sort left out
SortSeveritiesNone(values) == values

\* .sort((a,b)=>a-b): stable
RECURSIVE SortSeverities(_)
SortSeverities(values) ==
    IF values = <<>> THEN <<>>
    ELSE LET front == SortSeverities(SubSeq(values, 1, Len(values) - 1))
             x == values[Len(values)]
             k == Cardinality({i \in 1..Len(front) : front[i] - x <= 0})
         IN  SubSeq(front, 1, k) \o <<x>> \o SubSeq(front, k + 1, Len(front))

\* statePredictions.map(p => p.drought_severity).sort((a,b)=>a-b)
SeveritiesOf(statePredictions) ==
    SortSeverities([i \in 1..Len(statePredictions) |-> statePredictions[i].drought_severity])

\* MedianOf taking the upper middle element whatever the length
MedianOfUpperMiddle(severities) == severities[(Len(severities) \div 2) + 1]

\* mid = Math.floor(length / 2); even: (s[mid-1] + s[mid]) / 2, odd: s[mid]
\* (0-based in the code, 1-based here; the halves of the datasets drawn are whole
\* thousandths)
MedianOf(severities) ==
    LET mid == Len(severities) \div 2
    IN  IF Len(severities) % 2 = 0
        THEN (severities[mid] + severities[mid + 1]) \div 2
        ELSE severities[mid + 1]

\* L.layerGroup(): a new object, named by the least id no attached layer has
NewLayerGroup(m) ==
    [id |-> CHOOSE n \in 1..(Cardinality(m.layers) + 1) :
                /\ \A l \in m.layers : l.id # n
                /\ \A k \in 1..(n - 1) : \E l \in m.layers : l.id = k,
     markers |-> <<>>]

\* layer.addTo(map)
AddTo(layer, m) == [m EXCEPT !.layers = @ \cup {layer}]

\* map.removeLayer(layer) leaving the layer on the map
RemoveLayerKeeps(m, layer) == m

\* map.removeLayer(layer)
RemoveLayer(m, layer) == [m EXCEPT !.layers = {l \in @ : l.id # layer.id}]

\* map.setView(center, zoom)
SetView(m, center, zoom) == [m EXCEPT !.center = center, !.zoom = zoom]

\* L.circleMarker(center, {...}).bindPopup(popupHtml); opacities in percent
CircleMarker(center, color, state, avgSeverity, category, samples) ==
    [center |-> center, radius |-> 40, fillColor |-> color, color |-> color,
     weight |-> 2, opacity |-> 40, fillOpacity |-> 60,
     popup |-> [state |-> state, medianSeverity |-> ToFixed2(avgSeverity),
                category |-> category, samples |-> samples]]

\* CoordinateFallback going on to classify the median of no values, which is
\* NaN and falls through every threshold
CoordinateFallbackMarksExtreme(m, layer, state, found, call) ==
    LET filled == [layer EXCEPT !.markers =
                       <<[fillColor |-> ColorOf("Extreme Drought"),
                          popup |-> [state |-> state, category |-> "Extreme Drought",
                                     samples |-> 0]]>>]
    IN  [droughtLayer |-> filled,
         map |-> AddTo(filled, m),
         log |-> found,
         locals |-> call @@ [category |-> "Extreme Drought",
                             color |-> ColorOf("Extreme Drought")]]

\* the branch statePredictions.length === 0 of showStateMarker
CoordinateFallback(m, layer, state, found, call) ==
    [droughtLayer |-> layer,
     map |-> AddTo(layer, IF state \in DOMAIN STATE_COORDINATES
                          THEN SetView(m, STATE_COORDINATES[state], 6)
                          ELSE m),
     log |-> found,
     locals |-> call]

\* showStateMarker(state, dateStr) on the map m with predictionData = data: the
\* values of droughtLayer, map and the last console.log at its return, and its
\* locals
showStateMarker(m, data, state, dateStr) ==
    LET year == ParseDate(dateStr)[1]
        month == ParseDate(dateStr)[2]
        statePredictions == StatePredictions(data, state, year, month)
        layer == NewLayerGroup(m)
        call == [state |-> state, year |-> year, month |-> month, data |-> data,
                 statePredictions |-> statePredictions]
        found == <<"Found records", Len(statePredictions), state, year, month>>
    IN  IF Len(statePredictions) = 0
        THEN CoordinateFallback(m, layer, state, found, call)
        ELSE LET avgSeverity == MedianOf(SeveritiesOf(statePredictions))
                 category == severityToCategory(avgSeverity)
                 color == ColorOf(category)
                 computed == call @@ [avgSeverity |-> avgSeverity, category |-> category,
                                      color |-> color]
             IN  IF state \notin DOMAIN STATE_COORDINATES
                 THEN [droughtLayer |-> layer,
                       map |-> m,
                       log |-> <<"No center coordinate for state", state>>,
                       locals |-> computed]
                 ELSE LET center == STATE_COORDINATES[state]
                          circle == CircleMarker(center, color, state, avgSeverity,
                                                 category, Len(statePredictions))
                          filled == [layer EXCEPT !.markers = Append(@, circle)]
                      IN  [droughtLayer |-> filled,
                           map |-> SetView(AddTo(filled, m), center, 6),
                           log |-> found,
                           locals |-> computed]

\* the texts of updateTimeScaleInfo, by their key
infoTexts ==
    "1" :> "A 1-month view" @@ "3" :> "A 3-month period" @@
    "6" :> "A 6-month dry period" @@ "12" :> "A 12-month period"

\* values the user gives the controls of the map page
StateInputs == {"", "Bihar", "Kerala", "Orissa"}
TimeScaleInputs == {"", "12"}

\* updateMap() with stateSelect.value = state, dateSelect.value = date and
\* timeScale.value = timeScale
UpdateMapWith(state, date, timeScale) ==
    LET scale == IF timeScale = "" THEN "6" ELSE timeScale
        dateSelect == IF date = <<>> THEN <<"2", "0", "2", "4", "-", "0", "1">> ELSE date
        cleared == IF droughtLayer # Null THEN RemoveLayer(map, droughtLayer) ELSE map
    IN  /\ map # Null
        /\ dateValue' = date
        /\ timeScaleInfo' = IF scale \in DOMAIN infoTexts THEN infoTexts[scale] ELSE timeScaleInfo
        /\ lastCall' = [state |-> state, date |-> dateSelect]
        /\ IF state # ""
           THEN \E marked \in {showStateMarker(cleared, mapPredictionData, state, dateSelect)} :
                    /\ droughtLayer' = marked.droughtLayer
                    /\ map' = marked.map
                    /\ mapLog' = marked.log
                    /\ agg' = marked.locals
           ELSE /\ droughtLayer' = Null
                /\ map' = cleared
                /\ UNCHANGED <<mapLog, agg>>
        /\ UNCHANGED <<file, page, mapPredictionData, mapPc, stateOptions, dateOptions,
                       predVars, catVars>>

\* the user sets the controls (a state, one of the dates on offer or the date
\* already shown, a time scale) and the change handler runs
UpdateMap ==
    \E state \in StateInputs \cup Range(stateOptions),
       date \in {dateValue} \cup Range(dateOptions),
       timeScale \in TimeScaleInputs :
        UpdateMapWith(state, date, timeScale)

(***************************************************************************)
(* Prediction page: the state-district index.                              *)
(***************************************************************************)
\* the table initializeWithSampleData installs
SampleStateDistrictMap ==
    "Andhra Pradesh" :>
        <<"Anantapur", "Chittoor", "East Godavari", "Guntur", "Krishna", "Kurnool",
          "Prakasam", "Srikakulam", "Sri Potti Sriramulu Nellore", "Visakhapatnam",
          "Vizianagaram", "West Godavari", "YSR District">> @@
    "Maharashtra" :>
        <<"Ahmednagar", "Akola", "Amravati", "Aurangabad", "Beed", "Bhandara", "Buldhana",
          "Chandrapur", "Dhule", "Gadchiroli", "Gondia", "Hingoli", "Jalgaon", "Jalna",
          "Kolhapur", "Latur", "Mumbai", "Nagpur", "Nanded", "Nandurbar", "Nashik",
          "Osmanabad", "Palghar", "Parbhani", "Pune", "Raigad", "Ratnagiri", "Sangli",
          "Satara", "Sindhudurg", "Solapur", "Thane", "Wardha", "Washim", "Yavatmal">> @@
    "Karnataka" :>
        <<"Bagalkot", "Ballari", "Belagavi", "Bengaluru Rural", "Bengaluru Urban", "Bidar",
          "Chamarajanagar", "Chikkaballapura", "Chikkamagaluru", "Chitradurga",
          "Dakshina Kannada", "Davanagere", "Dharwad", "Gadag", "Hassan", "Haveri",
          "Kalaburagi", "Kodagu", "Kolar", "Koppal", "Mandya", "Mysuru", "Raichur",
          "Ramanagara", "Shivamogga", "Tumakuru", "Udupi", "Uttara Kannada", "Vijayapura",
          "Yadgir">> @@
    "Tamil Nadu" :>
        <<"Ariyalur", "Chengalpattu", "Chennai", "Coimbatore", "Cuddalore", "Dharmapuri",
          "Dindigul", "Erode", "Kallakurichi", "Kanchipuram", "Kanyakumari", "Karur",
          "Krishnagiri", "Madurai", "Nagapattinam", "Namakkal", "Nilgiris", "Perambalur",
          "Pudukkottai", "Ramanathapuram", "Ranipet", "Salem", "Sivaganga", "Tenkasi",
          "Thanjavur", "Theni", "Thoothukudi", "Tiruchirappalli", "Tirunelveli",
          "Tirupathur", "Tiruppur", "Tiruvallur", "Tiruvannamalai", "Tiruvarur", "Vellore",
          "Viluppuram", "Virudhunagar">> @@
    "Rajasthan" :>
        <<"Ajmer", "Alwar", "Banswara", "Baran", "Barmer", "Bharatpur", "Bhilwara",
          "Bikaner", "Bundi", "Chittorgarh", "Churu", "Dausa", "Dholpur", "Dungarpur",
          "Hanumangarh", "Jaipur", "Jaisalmer", "Jalore", "Jhalawar", "Jhunjhunu",
          "Jodhpur", "Karauli", "Kota", "Nagaur", "Pali", "Pratapgarh", "Rajsamand",
          "Sawai Madhopur", "Sikar", "Sirohi", "Sri Ganganagar", "Tonk", "Udaipur">> @@
    "Gujarat" :>
        <<"Ahmedabad", "Amreli", "Anand", "Aravalli", "Banaskantha", "Bharuch",
          "Bhavnagar", "Botad", "Chhota Udaipur", "Dahod", "Dang", "Devbhoomi Dwarka",
          "Gandhinagar", "Gir Somnath", "Jamnagar", "Junagadh", "Kheda", "Kutch",
          "Mahisagar", "Mehsana", "Morbi", "Narmada", "Navsari", "Panchmahal", "Patan",
          "Porbandar", "Rajkot", "Sabarkantha", "Surat", "Surendranagar", "Tapi",
          "Vadodara", "Valsad">>

\* a value is truthy: here a name that is not the empty string
Truthy(v) == v # ""

\* record.a || record.b, as the sequence of the value it yields when that value
\* is truthy and the empty sequence otherwise
EitherField(record, a, b) ==
    IF Has(record, a) /\ Truthy(record[a]) THEN <<record[a]>>
    ELSE IF Has(record, b) /\ Truthy(record[b]) THEN <<record[b]>>
    ELSE <<>>

\* one turn of the forEach of populateStateDistrictMap
AddDistrict(sdm, record) ==
    LET state == EitherField(record, "state", "State")
        district == EitherField(record, "district", "District")
    IN  IF state = <<>> \/ district = <<>> THEN sdm
        ELSE LET listed == IF state[1] \in DOMAIN sdm THEN sdm[state[1]] ELSE <<>>
                 pushed == IF district[1] \in Range(listed) THEN listed
                           ELSE Append(listed, district[1])
             IN  [s \in DOMAIN sdm \cup {state[1]} |-> IF s = state[1] THEN pushed ELSE sdm[s]]

RECURSIVE CollectDistricts(_, _)
CollectDistricts(sdm, data) ==
    IF data = <<>> THEN sdm
    ELSE CollectDistricts(AddDistrict(sdm, Head(data)), Tail(data))

\* SortDistricts with the sort left out
SortDistrictsNone(districts) == districts

\* stateDistrictMap[state].sort()
SortDistricts(districts) == SortNames(districts)

\* populateStateDistrictMap() with predictionData = pd, on the index sdm
populateStateDistrictMap(pd, sdm) ==
    IF ~Has(pd, "array") THEN sdm
    ELSE LET collected == CollectDistricts(sdm, pd.array)
         IN  [s \in DOMAIN collected |-> SortDistricts(collected[s])]

\* the keys of an object, in some order
RECURSIVE KeysOf(_)
KeysOf(keys) ==
    IF keys = {} THEN <<>>
    ELSE LET k == CHOOSE x \in keys : TRUE IN <<k>> \o KeysOf(keys \ {k})

\* populateStates(): the options appended to stateSelect
populateStates(sdm) == SortNames(KeysOf(DOMAIN sdm))

\* initializeYears(): the options appended to yearSelect
initializeYears == [i \in 1..11 |-> NumToStr(2019 + i)]

\* populateDistricts(state): the options of districtSelect
populateDistricts(state, sdm) ==
    <<"">> \o (IF state # "" /\ state \in DOMAIN sdm THEN sdm[state] ELSE <<>>)

(***************************************************************************)
(* Prediction page: loadPredictionData.                                    *)
(***************************************************************************)
\* DOMContentLoaded: loadPredictionData runs up to its await of fetch
StartLoad ==
    /\ predPc = "start"
    /\ loadingIndicator' = "block"
    /\ predPc' = "fetching"
    /\ UNCHANGED <<file, page, mapVars, predictionData, stateDistrictMap, predStateOptions,
                   yearOptions, predStateValue, districtOptions, districtDisabled,
                   resultDetails, shown, lastAlert, catVars>>

\* response.ok: the data, the index, the dropdowns
PredLoadSucceeds ==
    /\ predPc = "fetching"
    /\ file.status = "ok"
    /\ predictionData' = [array |-> file.body]
    /\ stateDistrictMap' = populateStateDistrictMap([array |-> file.body], stateDistrictMap)
    /\ predStateOptions' = predStateOptions \o populateStates(stateDistrictMap')
    /\ yearOptions' = yearOptions \o initializeYears
    /\ loadingIndicator' = "none"
    /\ predPc' = "loaded"
    /\ UNCHANGED <<file, page, mapVars, predStateValue, districtOptions, districtDisabled,
                   resultDetails, shown, lastAlert, catVars>>

\* !response.ok: an alert, nothing else
PredLoadBadStatus ==
    /\ predPc = "fetching"
    /\ file.status = "badstatus"
    /\ lastAlert' = "Please convert the pkl file to JSON using the provided Python script"
    /\ loadingIndicator' = "none"
    /\ predPc' = "badstatus"
    /\ UNCHANGED <<file, page, mapVars, predictionData, stateDistrictMap, predStateOptions,
                   yearOptions, predStateValue, districtOptions, districtDisabled,
                   resultDetails, shown, catVars>>

\* PredLoadThrows with a sample record seeded beside the sample table
PredLoadThrowsWithSampleRecords ==
    /\ predPc = "fetching"
    /\ file.status \in {"unreachable", "undecodable"}
    /\ loadingIndicator' = "none"
    /\ predictionData' = [array |-> <<[state |-> "Andhra Pradesh", district |-> "Anantapur",
                                       year |-> 2025, month |-> 3, drought_severity |-> 2000]>>]
    /\ stateDistrictMap' = SampleStateDistrictMap
    /\ predStateOptions' = predStateOptions \o populateStates(stateDistrictMap')
    /\ yearOptions' = yearOptions \o initializeYears
    /\ predPc' = "fallback"
    /\ UNCHANGED <<file, page, mapVars, predStateValue, districtOptions,
                   districtDisabled, resultDetails, shown, lastAlert, catVars>>

\* fetch rejects, or response.json() rejects: the catch block and
\* initializeWithSampleData
PredLoadThrows ==
    /\ predPc = "fetching"
    /\ file.status \in {"unreachable", "undecodable"}
    /\ loadingIndicator' = "none"
    /\ stateDistrictMap' = SampleStateDistrictMap
    /\ predStateOptions' = predStateOptions \o populateStates(stateDistrictMap')
    /\ yearOptions' = yearOptions \o initializeYears
    /\ predPc' = "fallback"
    /\ UNCHANGED <<file, page, mapVars, predictionData, predStateValue, districtOptions,
                   districtDisabled, resultDetails, shown, lastAlert, catVars>>

\* the change listener populateStates registers: populateDistricts(this.value)
ChangeState ==
    \E state \in {""} \cup Range(predStateOptions) :
        /\ predPc \in {"loaded", "fallback"}
        /\ predStateValue' = state
        /\ districtOptions' = populateDistricts(state, stateDistrictMap)
        /\ districtDisabled' = ~(state # "" /\ state \in DOMAIN stateDistrictMap)
        /\ UNCHANGED <<file, page, mapVars, predictionData, stateDistrictMap, predPc,
                       loadingIndicator, predStateOptions, yearOptions, resultDetails,
                       shown, lastAlert, catVars>>

(***************************************************************************)
(* Prediction page: getPrediction, generateSamplePrediction and            *)
(* displayPrediction.  Rainfall and temperature are in thousandths, a      *)
(* confidence is in millionths, a value of Math.random() is in thousandths.*)
(***************************************************************************)
\* record.a == value || record.b == value, value a string of digits and the
\* fields numbers
LooseMatch(record, a, b, value) ==
    \/ Has(record, a) /\ record[a] = StrToNum(value)
    \/ Has(record, b) /\ record[b] = StrToNum(value)

\* record.a === value || record.b === value
StrictMatch(record, a, b, value) ==
    \/ Has(record, a) /\ record[a] = value
    \/ Has(record, b) /\ record[b] = value

\* the predicate of predictionData.find
RecordMatches(record, state, district, month, year) ==
    /\ StrictMatch(record, "state", "State", state)
    /\ StrictMatch(record, "district", "District", district)
    /\ LooseMatch(record, "month", "Month", month)
    /\ LooseMatch(record, "year", "Year", year)

\* predictionData.find(...): the first match as a one-element sequence, the
\* empty sequence when find returns undefined or predictionData is null
FindPrediction(pd, state, district, month, year) ==
    IF ~Has(pd, "array") THEN <<>>
    ELSE LET hits == SelectSeq(pd.array,
                               LAMBDA r : RecordMatches(r, state, district, month, year))
         IN  IF hits = <<>> THEN <<>> ELSE <<Head(hits)>>

\* the five values Math.random() returns to one call of
\* generateSamplePrediction, as the model draws them
RandomRuns == {<<0, 0, 0, 0, 0>>, <<999, 999, 999, 999, 999>>, <<500, 0, 999, 0, 999>>}

droughtCategories ==
    <<"No Drought", "Mild Drought", "Moderate Drought", "Severe Drought", "Extreme Drought">>

\* generateSamplePrediction with the five values of Math.random() it draws
generateSamplePrediction(r1, r2, r3, r4, r5) ==
    [drought_category |-> droughtCategories[((r1 * Len(droughtCategories)) \div 1000) + 1],
     drought_severity |-> r2 * 5,
     rainfall_prediction |-> r3 * 200,
     temperature_avg |-> 20000 + r4 * 15,
     confidence |-> 700000 + r5 * 250]

\* x.toFixed(1) of x >= 0 in thousandths
ToFixed1(x) ==
    LET t == (x + 50) \div 100
    IN  NumToStr(t \div 10) \o <<".">> \o NumToStr(t % 10)

\* (confidence * 100).toFixed(0) of a confidence in millionths
PercentOf(confidence) == NumToStr((confidence + 5000) \div 10000)

\* prediction.a || prediction.b || 0 for numbers
NumberField(prediction, a, b) ==
    IF Has(prediction, a) /\ prediction[a] # 0 THEN prediction[a]
    ELSE IF Has(prediction, b) /\ prediction[b] # 0 THEN prediction[b]
    ELSE 0

\* prediction.drought_category || prediction.DroughtCategory || 'Unknown'
CategoryField(prediction) ==
    LET c == EitherField(prediction, "drought_category", "DroughtCategory")
    IN  IF c = <<>> THEN "Unknown" ELSE c[1]

\* the words of category.includes(...) that each category name contains
CategoryWords ==
    "Exceptional Drought" :> {} @@
    "Extreme Drought" :> {"Extreme"} @@
    "Severe Drought" :> {"Severe"} @@
    "Moderate Drought" :> {"Moderate"} @@
    "Slightly Dry" :> {} @@
    "Near Normal" :> {} @@
    "Slightly Wet" :> {} @@
    "Moderate Wet" :> {"Moderate"} @@
    "No Drought" :> {} @@
    "Mild Drought" :> {"Mild"} @@
    "Unknown" :> {}

SeverityClass(category) ==
    IF "Severe" \in CategoryWords[category] \/ "Extreme" \in CategoryWords[category]
    THEN "severity-severe"
    ELSE IF "Moderate" \in CategoryWords[category] \/ "Mild" \in CategoryWords[category]
    THEN "severity-moderate"
    ELSE "severity-normal"

monthNames ==
    <<"", "January", "February", "March", "April", "May", "June",
      "July", "August", "September", "October", "November", "December">>

\* displayPrediction: the cards written to #resultDetails
displayPrediction(prediction, state, district, month, year) ==
    LET category == CategoryField(prediction)
    IN  [location |-> <<district, state>>,
         period |-> <<monthNames[StrToNum(month) + 1], year>>,
         category |-> category,
         severityClass |-> SeverityClass(category),
         severity |-> ToFixed2(NumberField(prediction, "drought_severity", "Severity")),
         rainfall |-> ToFixed1(NumberField(prediction, "rainfall_prediction", "Rainfall")),
         temperature |-> ToFixed1(NumberField(prediction, "temperature_avg", "Temperature")),
         confidence |-> PercentOf(NumberField(prediction, "confidence", "Confidence"))]

\* values the user gives monthSelect and yearSelect
MonthInputs == {<<>>, <<"3">>, <<"4">>}
YearInputs == {<<"2", "0", "2", "5">>}

\* getPrediction() with the values of the four selects and the random draws
\* generateSamplePrediction would make
GetPredictionWith(state, district, month, year, r1, r2, r3, r4, r5) ==
    IF state = "" \/ district = "" \/ month = <<>> \/ year = <<>>
    THEN /\ lastAlert' = "Please select all parameters"
         /\ UNCHANGED <<loadingIndicator, resultDetails, shown>>
    ELSE LET found == FindPrediction(predictionData, state, district, month, year)
             prediction == IF found = <<>>
                           THEN generateSamplePrediction(r1, r2, r3, r4, r5)
                           ELSE found[1]
         IN  /\ resultDetails' = displayPrediction(prediction, state, district, month, year)
             /\ shown' = [prediction |-> prediction, state |-> state, district |-> district,
                          month |-> month, year |-> year,
                          origin |-> IF found = <<>> THEN "synthesized" ELSE "dataset"]
             /\ loadingIndicator' = "none"
             /\ UNCHANGED lastAlert

GetPrediction ==
    \E district \in Range(SubSeq(districtOptions, 1,
                                 IF Len(districtOptions) <= MaxDistrictChoice + 1
                                 THEN Len(districtOptions) ELSE MaxDistrictChoice + 1)),
       month \in MonthInputs,
       year \in IF yearOptions = <<>> THEN {<<>>} ELSE YearInputs \cap Range(yearOptions),
       r \in RandomRuns :
        /\ GetPredictionWith(predStateValue, district, month, year,
                             r[1], r[2], r[3], r[4], r[5])
        /\ UNCHANGED <<file, page, mapVars, predictionData, stateDistrictMap, predPc,
                       predStateOptions, yearOptions, predStateValue, districtOptions,
                       districtDisabled, catVars>>

(***************************************************************************)
(* severityToCategory on its own.                                          *)
(***************************************************************************)
Classify ==
    /\ categoryOut' = severityToCategory(severityIn)
    /\ UNCHANGED <<file, page, mapVars, predVars, severityIn>>

(***************************************************************************)
(* Datasets.  Every record of a dataset carries drought_severity; a record *)
(* that carries a year carries a month in the same spelling.               *)
(***************************************************************************)
\* the sequences over a set of records, up to MaxRecords long
Datasets(records) == UNION {[1..n -> records] : n \in 0..MaxRecords}

\* the resource: a JSON array of records, or one that cannot be had
Files(records) ==
    {[status |-> "ok", body |-> b] : b \in Datasets(records)}
    \cup {[status |-> s] : s \in {"unreachable", "badstatus", "undecodable"}}

Record(state, district, year, month, severity) ==
    [state |-> state, district |-> district, year |-> year, month |-> month,
     drought_severity |-> severity, drought_category |-> "Mild Drought",
     confidence |-> 900000]

\* records for the aggregation of a state: three severities for Bihar in March
\* 2025, and one record each that differs in the month, the year or the state
AggregationRecords ==
    {Record("Bihar", "Gaya", 2025, 3, sev) : sev \in {1000, 2000, 4000}}
    \cup {Record("Bihar", "Gaya", 2025, 4, 4000),
          Record("Bihar", "Gaya", 2024, 3, 4000),
          Record("Orissa", "Gaya", 2025, 3, 2000)}

InitWith(files, pages, severities) ==
    /\ file \in files
    /\ page \in pages
    /\ map = Null
    /\ droughtLayer = Null
    /\ mapPredictionData = <<>>
    /\ mapPc = "start"
    /\ stateOptions = <<"">>
    /\ dateOptions = <<>>
    /\ dateValue = <<>>
    /\ timeScaleInfo = ""
    /\ mapLog = <<>>
    /\ agg = Null
    /\ lastCall = Null
    /\ predictionData = Null
    /\ stateDistrictMap = <<>>
    /\ predPc = "start"
    /\ loadingIndicator = "none"
    /\ predStateOptions = <<>>
    /\ yearOptions = <<>>
    /\ predStateValue = ""
    /\ districtOptions = <<"">>
    /\ districtDisabled = TRUE
    /\ resultDetails = Null
    /\ shown = Null
    /\ lastAlert = ""
    /\ severityIn \in severities
    /\ categoryOut = ""

(***************************************************************************)
(* The map page, on datasets that exercise the aggregation.                *)
(***************************************************************************)
MapNext ==
    \/ InitMap
    \/ MapLoadThrows
    \/ MapLoadBadStatus
    \/ MapLoadSucceeds
    \/ UpdateMap

Init == InitWith(Files(AggregationRecords), {"map"}, {0})

Next == MapNext

Spec == Init /\ [][Next]_vars

(***************************************************************************)
(* The prediction page, on datasets that exercise the state-district       *)
(* index: one district in two months, two districts of one state out of    *)
(* order, a record without a district, a second state.                     *)
(***************************************************************************)
PredNext ==
    \/ StartLoad
    \/ PredLoadSucceeds
    \/ PredLoadBadStatus
    \/ PredLoadThrows
    \/ ChangeState
    \/ GetPrediction

IndexRecords ==
    {Record("Bihar", "Gaya", 2025, 3, 2000),
     Record("Bihar", "Gaya", 2025, 4, 4000),
     Record("Bihar", "Arwal", 2025, 3, 1000),
     [state |-> "Bihar", year |-> 2025, month |-> 3, drought_severity |-> 2000],
     Record("Kerala", "Idukki", 2025, 3, 2000)}

InitPrediction == InitWith(Files(IndexRecords), {"prediction"}, {0})

SpecPrediction == InitPrediction /\ [][PredNext]_vars

(***************************************************************************)
(* Either page, on datasets that spell the fields in lowercase, in         *)
(* capitals, or both ways with different states.                           *)
(***************************************************************************)
PageNext ==
    \/ page = "map" /\ InitMap
    \/ page = "map" /\ MapLoadThrows
    \/ page = "map" /\ MapLoadBadStatus
    \/ page = "map" /\ MapLoadSucceeds
    \/ page = "map" /\ UpdateMap
    \/ page = "prediction" /\ StartLoad
    \/ page = "prediction" /\ PredLoadSucceeds
    \/ page = "prediction" /\ PredLoadBadStatus
    \/ page = "prediction" /\ PredLoadThrows
    \/ page = "prediction" /\ ChangeState
    \/ page = "prediction" /\ GetPrediction

SpellingRecords ==
    {Record("Bihar", "Gaya", 2025, 3, 2000),
     [State |-> "Bihar", District |-> "Gaya", Year |-> 2025, Month |-> 3,
      drought_severity |-> 4000],
     [state |-> "Bihar", State |-> "Kerala", district |-> "Idukki", year |-> 2025,
      month |-> 3, drought_severity |-> 1000],
     Record("Kerala", "Idukki", 2025, 3, 2000)}

InitSpelling == InitWith(Files(SpellingRecords), {"map", "prediction"}, {0})

SpecSpelling == InitSpelling /\ [][PageNext]_vars

(***************************************************************************)
(* Either page, on a fetch that fails or succeeds.                         *)
(***************************************************************************)
LoadRecords ==
    {Record("Bihar", "Gaya", 2025, 3, 2000),
     Record("Bihar", "Arwal", 2025, 4, 4000)}

InitLoad == InitWith(Files(LoadRecords), {"map", "prediction"}, {0})

SpecLoad == InitLoad /\ [][PageNext]_vars

(***************************************************************************)
(* The map page, on datasets that exercise the date dropdown: both ends of *)
(* the range 2024..2026 and a year beyond each, the months 9 and 10 of one *)
(* year, and one period held for two states.                               *)
(***************************************************************************)
PeriodRecords ==
    {Record("Bihar", "Gaya", 2024, 9, 2000),
     Record("Bihar", "Gaya", 2024, 10, 2000),
     Record("Bihar", "Gaya", 2026, 1, 2000),
     Record("Bihar", "Gaya", 2023, 10, 2000),
     Record("Bihar", "Gaya", 2027, 1, 2000),
     Record("Kerala", "Idukki", 2024, 9, 2000)}

InitPeriods == InitWith(Files(PeriodRecords), {"map"}, {0})

SpecPeriods == InitPeriods /\ [][MapNext]_vars

(***************************************************************************)
(* severityToCategory on every argument from -MaxSeverityArg to            *)
(* MaxSeverityArg thousandths.                                             *)
(***************************************************************************)
InitCategory ==
    InitWith({[status |-> "badstatus"]}, {"map"}, (0 - MaxSeverityArg)..MaxSeverityArg)

CategoryNext == Classify

SpecCategory == InitCategory /\ [][CategoryNext]_vars

\* `${year}-${month padded to two digits}`, the form of a date on offer
PeriodText(year, month) == NumToStr(year) \o <<"-">> \o PadStart(NumToStr(month), 2, "0")

(***************************************************************************)
(* Properties of severityToCategory (specification SpecCategory).          *)
(***************************************************************************)
\* C2: severityToCategory gives every severity one of five categories, by
\* upper-inclusive bounds: at most 0.8 "No Drought", above 0.8 and at most 1.8
\* "Slightly Dry", above 1.8 and at most 2.8 "Moderate Drought", above 2.8 and
\* at most 3.8 "Severe Drought", above 3.8 "Extreme Drought"; it never gives one
\* of the other five categories of the colour table.
C2_Thresholds ==
    categoryOut # "" =>
        /\ (categoryOut = "No Drought") <=> (severityIn <= 800)
        /\ (categoryOut = "Slightly Dry") <=> (800 < severityIn /\ severityIn <= 1800)
        /\ (categoryOut = "Moderate Drought") <=> (1800 < severityIn /\ severityIn <= 2800)
        /\ (categoryOut = "Severe Drought") <=> (2800 < severityIn /\ severityIn <= 3800)
        /\ (categoryOut = "Extreme Drought") <=> (3800 < severityIn)
        /\ categoryOut \in DOMAIN DROUGHT_COLORS
        /\ categoryOut \notin {"Exceptional Drought", "Near Normal", "Slightly Wet",
                               "Moderate Wet", "Mild Drought"}

\* the bound 3.8 itself is still "Severe Drought"
C2_Reached == severityIn = 3800 /\ categoryOut = "Severe Drought"

(***************************************************************************)
(* Properties of the date dropdown (specification SpecPeriods).            *)
(***************************************************************************)
\* C8: once the load has succeeded the date dropdown holds one option for each
\* distinct (year, month) of a record whose year is in 2024..2026 and no other
\* option, in strictly ascending order of year*12 + month.
C8_DateOptions ==
    mapPc = "loaded" =>
        LET inRange == {i \in 1..Len(mapPredictionData) :
                            /\ mapPredictionData[i].year >= 2024
                            /\ mapPredictionData[i].year <= 2026}
            periods == {<<mapPredictionData[i].year, mapPredictionData[i].month>> : i \in inRange}
        IN  /\ Len(dateOptions) = Cardinality(periods)
            /\ \A p \in periods : \E i \in 1..Len(dateOptions) :
                   dateOptions[i] = PeriodText(p[1], p[2])
            /\ \A i \in 1..Len(dateOptions) : ParseDate(dateOptions[i]) \in periods
            /\ \A i, j \in 1..Len(dateOptions) :
                   i < j => ParseDate(dateOptions[i])[1] * 12 + ParseDate(dateOptions[i])[2]
                            < ParseDate(dateOptions[j])[1] * 12 + ParseDate(dateOptions[j])[2]

\* October 2024 comes first in the file, then a year out of range, then
\* September 2024
C8_Reached ==
    /\ mapPc = "loaded"
    /\ Len(mapPredictionData) = 3
    /\ mapPredictionData[1].year = 2024 /\ mapPredictionData[1].month = 10
    /\ mapPredictionData[2].year = 2027
    /\ mapPredictionData[3].year = 2024 /\ mapPredictionData[3].month = 9
    /\ dateOptions = << <<"2", "0", "2", "4", "-", "0", "9">>,
                        <<"2", "0", "2", "4", "-", "1", "0">> >>

(***************************************************************************)
(* Properties of the aggregation (specification Spec).                     *)
(***************************************************************************)
\* the permutations of 1..n
Perms(n) == {f \in [1..n -> 1..n] : \A i, j \in 1..n : i # j => f[i] # f[j]}

\* the most recent updateMap call named a state, so droughtLayer and agg are
\* those of its showStateMarker call
CalledWithState == lastCall # Null /\ lastCall.state # ""

\* the scenario of C1: the last call aggregated ("Bihar", 2025, 3) over a dataset
\* of exactly two records for Bihar, March 2025, with severities 2.0 and 4.0
C1_Scenario ==
    /\ CalledWithState
    /\ agg.state = "Bihar" /\ agg.year = 2025 /\ agg.month = 3
    /\ Len(agg.data) = 2
    /\ \A i \in 1..2 : /\ agg.data[i].state = "Bihar"
                       /\ agg.data[i].year = 2025
                       /\ agg.data[i].month = 3
    /\ {agg.data[i].drought_severity : i \in 1..2} = {2000, 4000}

\* C1 as stated: in the scenario the median is 3.0, the category is "Moderate
\* Drought", the marker's colour is #FCD37F and the popup counts 2 samples.
C1_AsStated ==
    C1_Scenario =>
        /\ agg.avgSeverity = 3000
        /\ agg.category = "Moderate Drought"
        /\ Len(droughtLayer.markers) = 1
        /\ droughtLayer.markers[1].fillColor = "#FCD37F"
        /\ droughtLayer.markers[1].popup.samples = 2

\* C1 as amended: in the scenario the median is 3.0 (shown as "3.00"), which is
\* above 2.8 and at most 3.8, so the category is "Severe Drought" and the
\* marker's colour is #FFAA00; the popup counts 2 samples.
C1_EndToEnd ==
    C1_Scenario =>
        /\ agg.avgSeverity = 3000
        /\ agg.category = "Severe Drought"
        /\ Len(droughtLayer.markers) = 1
        /\ droughtLayer.markers[1].fillColor = "#FFAA00"
        /\ droughtLayer.markers[1].color = "#FFAA00"
        /\ droughtLayer.markers[1].popup.medianSeverity = <<"3", ".", "0", "0">>
        /\ droughtLayer.markers[1].popup.category = "Severe Drought"
        /\ droughtLayer.markers[1].popup.samples = 2

C1_Reached ==
    /\ C1_Scenario
    /\ mapPredictionData = agg.data
    /\ Len(droughtLayer.markers) = 1
    /\ droughtLayer \in map.layers

\* C3: whenever records match, the severity showStateMarker computes is their
\* median: in every ascending arrangement of their severities it is the middle
\* value when the count is odd and the average of the two middle values when
\* the count is even; and it is the same for every order of the records in the
\* dataset.
C3_MedianOfMatching ==
    (agg # Null /\ agg.statePredictions # <<>>) =>
        LET matching == agg.statePredictions
            n == Len(matching)
            v == [i \in 1..n |-> matching[i].drought_severity]
        IN  /\ Has(agg, "avgSeverity")
            /\ \A f \in Perms(n) :
                   (\A k \in 1..(n - 1) : v[f[k]] <= v[f[k + 1]]) =>
                       IF n % 2 = 1
                       THEN agg.avgSeverity = v[f[(n + 1) \div 2]]
                       ELSE 2 * agg.avgSeverity = v[f[n \div 2]] + v[f[(n \div 2) + 1]]
            /\ \A g \in Perms(Len(agg.data)) :
                   LET reordered == [i \in 1..Len(agg.data) |-> agg.data[g[i]]]
                   IN  MedianOf(SeveritiesOf(StatePredictions(reordered, agg.state,
                                                               agg.year, agg.month)))
                       = agg.avgSeverity

\* three matching records, not in ascending order in the dataset, whose median
\* 2.0 is not their mean
C3_Reached ==
    /\ agg # Null
    /\ Len(agg.statePredictions) = 3
    /\ agg.statePredictions[1].drought_severity = 4000
    /\ agg.statePredictions[2].drought_severity = 1000
    /\ agg.statePredictions[3].drought_severity = 2000
    /\ agg.avgSeverity = 2000
    /\ 3 * agg.avgSeverity # 4000 + 1000 + 2000

\* C4: the records aggregated are exactly the records of the dataset whose
\* state, year and month equal the selected state and period, each as often as
\* the dataset holds it, and the popup's sample count is their number.
C4_ExactFilter ==
    agg # Null =>
        LET hits == {i \in 1..Len(agg.data) : /\ agg.data[i].state = agg.state
                                             /\ agg.data[i].year = agg.year
                                             /\ agg.data[i].month = agg.month}
        IN  /\ Len(agg.statePredictions) = Cardinality(hits)
            /\ \A r \in Range(agg.data) \cup Range(agg.statePredictions) :
                   Cardinality({k \in 1..Len(agg.statePredictions) : agg.statePredictions[k] = r})
                   = Cardinality({i \in hits : agg.data[i] = r})
            /\ CalledWithState =>
                   /\ agg.state = lastCall.state
                   /\ PeriodText(agg.year, agg.month) = lastCall.date
                   /\ \A k \in 1..Len(droughtLayer.markers) :
                          droughtLayer.markers[k].popup.samples = Cardinality(hits)

\* a dataset holding one matching record twice and a record of another month
C4_Reached ==
    /\ CalledWithState
    /\ Len(agg.data) = 3
    /\ agg.data[1] = agg.data[3]
    /\ agg.data[2].state = agg.state /\ agg.data[2].year = agg.year
    /\ agg.data[2].month # agg.month
    /\ agg.statePredictions = <<agg.data[1], agg.data[3]>>
    /\ Len(droughtLayer.markers) = 1
    /\ droughtLayer.markers[1].popup.samples = 2

\* a step of updateMap that names a state
CallStep == map # Null /\ mapPc' = mapPc /\ lastCall' # Null /\ lastCall'.state # ""

\* no record of the dataset matches the state and period of that call
NoMatchStep ==
    \A i \in 1..Len(mapPredictionData) :
        ~ /\ mapPredictionData[i].state = lastCall'.state
          /\ mapPredictionData[i].year = ParseDate(lastCall'.date)[1]
          /\ mapPredictionData[i].month = ParseDate(lastCall'.date)[2]

\* C5: a call for a state and period that no record matches, and so every call
\* made while the fetch is pending or after it failed, counts 0 samples and
\* computes no severity, category or colour; the layer it leaves holds no
\* marker and nothing drawn is on the map; the view is centred on the state at
\* zoom 6 when the state has coordinates and is left as it was otherwise.
C5_NoMatchNoCategory ==
    [][ /\ (CallStep /\ mapPc \in {"fetching", "failed"}) => NoMatchStep
        /\ (CallStep /\ NoMatchStep) =>
              /\ agg'.state = lastCall'.state
              /\ Len(agg'.statePredictions) = 0
              /\ ~Has(agg', "avgSeverity") /\ ~Has(agg', "category") /\ ~Has(agg', "color")
              /\ droughtLayer'.markers = <<>>
              /\ \A l \in map'.layers : l.markers = <<>>
              /\ IF lastCall'.state \in DOMAIN STATE_COORDINATES
                 THEN map'.center = STATE_COORDINATES[lastCall'.state] /\ map'.zoom = 6
                 ELSE map'.center = map.center /\ map'.zoom = map.zoom
              /\ UNCHANGED <<mapPredictionData, stateOptions, dateOptions>>
      ]_vars

\* a call for Kerala on a loaded dataset that holds records, none for Kerala
C5_Reached ==
    /\ mapPc = "loaded"
    /\ mapPredictionData # <<>>
    /\ CalledWithState
    /\ lastCall.state = "Kerala"
    /\ agg.state = "Kerala"
    /\ agg.statePredictions = <<>>
    /\ droughtLayer.markers = <<>>
    /\ map.center = STATE_COORDINATES["Kerala"]

\* the last call aggregated records of a state that STATE_COORDINATES lacks
MissingCoordinateCall ==
    /\ CalledWithState
    /\ agg.state = lastCall.state
    /\ agg.statePredictions # <<>>
    /\ agg.state \notin DOMAIN STATE_COORDINATES

\* C11 as stated: when records match a state without coordinates only the
\* positioning is skipped: the median, the category and the sample count are
\* computed and are on display, in the popup of a marker of the layer on the map.
C11_OnlyPositioningSkipped ==
    MissingCoordinateCall =>
        /\ Has(agg, "avgSeverity") /\ Has(agg, "category")
        /\ droughtLayer # Null
        /\ droughtLayer \in map.layers
        /\ \E i \in 1..Len(droughtLayer.markers) :
               /\ droughtLayer.markers[i].popup.medianSeverity = ToFixed2(agg.avgSeverity)
               /\ droughtLayer.markers[i].popup.category = agg.category
               /\ droughtLayer.markers[i].popup.samples = Len(agg.statePredictions)

\* C12: at every moment, whatever updateMap calls were made before, during and
\* after the fetch, the map holds at most one drought layer, which is the one
\* droughtLayer refers to; it holds at most one circle marker, and that marker
\* shows the state named by the most recent updateMap call and the median,
\* category and sample count of the records of the held dataset for that state
\* and that call's period; after a call that names no state no layer is on
\* the map and droughtLayer is null.
C12_AtMostOneLayer ==
    map # Null =>
        /\ Cardinality(map.layers) <= 1
        /\ \A l \in map.layers :
               /\ droughtLayer # Null
               /\ l = droughtLayer
               /\ Len(l.markers) <= 1
               /\ CalledWithState
               /\ \A i \in 1..Len(l.markers) :
                      /\ l.markers[i].popup.state = lastCall.state
                      /\ l.markers[i].center = STATE_COORDINATES[lastCall.state]
                      /\ agg.state = lastCall.state
                      /\ agg.year = ParseDate(lastCall.date)[1]
                      /\ agg.month = ParseDate(lastCall.date)[2]
                      /\ agg.data = mapPredictionData
                      /\ agg.statePredictions
                         = StatePredictions(mapPredictionData, lastCall.state,
                                            ParseDate(lastCall.date)[1],
                                            ParseDate(lastCall.date)[2])
                      /\ l.markers[i].popup.medianSeverity = ToFixed2(agg.avgSeverity)
                      /\ l.markers[i].popup.category = agg.category
                      /\ l.markers[i].popup.samples = Len(agg.statePredictions)
                      /\ l.markers[i].fillColor = agg.color
        /\ (lastCall # Null /\ lastCall.state = "") =>
               (droughtLayer = Null /\ map.layers = {})

\* an earlier call drew a marker (its category is still in agg, its state has
\* coordinates) and the most recent call, naming no state, took the layer away
C12_Reached ==
    /\ lastCall # Null
    /\ lastCall.state = ""
    /\ agg # Null
    /\ Has(agg, "category")
    /\ agg.state \in DOMAIN STATE_COORDINATES
    /\ droughtLayer = Null
    /\ map.layers = {}

(***************************************************************************)
(* Properties of the field spellings (specification SpecSpelling).         *)
(***************************************************************************)
\* a field as C6 reads it: the lowercase spelling when the record has it,
\* otherwise the capitalized one; the empty sequence when it has neither
FieldOf(record, lower, upper) ==
    IF Has(record, lower) THEN <<record[lower]>>
    ELSE IF Has(record, upper) THEN <<record[upper]>>
    ELSE <<>>

\* the records of a dataset that C6's reading matches to a state and period
SpelledMatches(data, state, year, month) ==
    {i \in 1..Len(data) : /\ FieldOf(data[i], "state", "State") = <<state>>
                          /\ FieldOf(data[i], "year", "Year") = <<year>>
                          /\ FieldOf(data[i], "month", "Month") = <<month>>}

\* C6 as stated: the aggregation counts exactly the records whose state, year
\* and month, each read in lowercase when present and in capitals otherwise,
\* equal the selection; and a record that getPrediction serves from the dataset
\* equals the selection in its state, district, month and year read the same way.
C6_SpellingFallback ==
    /\ agg # Null =>
           Len(agg.statePredictions)
           = Cardinality(SpelledMatches(agg.data, agg.state, agg.year, agg.month))
    /\ (shown # Null /\ shown.origin = "dataset") =>
           /\ FieldOf(shown.prediction, "state", "State") = <<shown.state>>
           /\ FieldOf(shown.prediction, "district", "District") = <<shown.district>>
           /\ FieldOf(shown.prediction, "month", "Month") = <<StrToNum(shown.month)>>
           /\ FieldOf(shown.prediction, "year", "Year") = <<StrToNum(shown.year)>>

(***************************************************************************)
(* Properties of the prediction page (specification SpecPrediction).       *)
(***************************************************************************)
\* records a dataset may hold for a state, district, month and year, with the
\* fields displayPrediction reads
PossibleRecords(state, district, month, year) ==
    {[state |-> state, district |-> district, month |-> StrToNum(month),
      year |-> StrToNum(year), drought_category |-> c, drought_severity |-> s,
      rainfall_prediction |-> r, temperature_avg |-> t, confidence |-> k] :
        c \in Range(droughtCategories), s \in {0, 2000, 4995}, r \in {0, 199800},
        t \in {20000, 34985}, k \in {700000, 949750}}

\* C7 as stated: what is displayed for a synthesized prediction differs from
\* what is displayed for every record a dataset may hold, so the display tells
\* the two apart.
C7_SynthesizedIsMarked ==
    (shown # Null /\ shown.origin = "synthesized") =>
        \A g \in PossibleRecords(shown.state, shown.district, shown.month, shown.year) :
            displayPrediction(g, shown.state, shown.district, shown.month, shown.year)
            # resultDetails

\* C9: once the load has succeeded the index has a key for each state that
\* some record names together with a district; under it are exactly the
\* districts those records name, each once, in ascending order of the default
\* sort; and the index is the same for every order of the records.
C9_DistrictIndex ==
    predPc = "loaded" =>
        LET data == predictionData.array
            full == {i \in 1..Len(data) : Has(data[i], "district")}
            pairs == {<<data[i].state, data[i].district>> : i \in full}
        IN  /\ DOMAIN stateDistrictMap = {p[1] : p \in pairs}
            /\ \A s \in DOMAIN stateDistrictMap :
                   /\ Range(stateDistrictMap[s]) = {p[2] : p \in {q \in pairs : q[1] = s}}
                   /\ \A i, j \in 1..Len(stateDistrictMap[s]) :
                          i < j => NameLess(stateDistrictMap[s][i], stateDistrictMap[s][j])
            /\ \A g \in Perms(Len(data)) :
                   LET reordered == [i \in 1..Len(data) |-> data[g[i]]]
                   IN  populateStateDistrictMap([array |-> reordered], <<>>) = stateDistrictMap

\* Gaya in March, Arwal, Gaya in April: Gaya is listed once, after Arwal
C9_Reached ==
    /\ predPc = "loaded"
    /\ Len(predictionData.array) = 3
    /\ \A i \in 1..3 : Has(predictionData.array[i], "district")
    /\ predictionData.array[1].district = "Gaya" /\ predictionData.array[1].month = 3
    /\ predictionData.array[2].district = "Arwal"
    /\ predictionData.array[3].district = "Gaya" /\ predictionData.array[3].month = 4
    /\ stateDistrictMap["Bihar"] = <<"Arwal", "Gaya">>

(***************************************************************************)
(* Properties of a failed fetch (specification SpecLoad).                  *)
(***************************************************************************)
\* C10: when the fetch fails neither loader ends anywhere but in its failure
\* path: the map page holds no records and aggregates none; the prediction
\* page holds no records, serves only synthesized predictions, and its index is
\* empty (bad status) or the sample table (fetch or decoding failed), the
\* sample table never installed beside loaded records.
C10_FailedLoadIsEmpty ==
    file.status # "ok" =>
        /\ mapPc \in {"start", "fetching", "failed"}
        /\ mapPredictionData = <<>>
        /\ agg # Null => (agg.statePredictions = <<>> /\ ~Has(agg, "category"))
        /\ droughtLayer # Null => droughtLayer.markers = <<>>
        /\ predPc \in {"start", "fetching", "badstatus", "fallback"}
        /\ predictionData = Null
        /\ shown # Null => shown.origin = "synthesized"
        /\ predPc \in {"badstatus", "fallback"} => loadingIndicator = "none"
        /\ predPc = "fallback" => stateDistrictMap = SampleStateDistrictMap
        /\ predPc # "fallback" => DOMAIN stateDistrictMap = {}
        /\ DOMAIN stateDistrictMap # {} =>
               (stateDistrictMap = SampleStateDistrictMap /\ predictionData = Null)

\* the resource is unreachable, the sample table is installed, and a
\* prediction asked for from it is a synthesized one
C10_Reached ==
    /\ file.status = "unreachable"
    /\ predPc = "fallback"
    /\ stateDistrictMap = SampleStateDistrictMap
    /\ predictionData = Null
    /\ shown # Null
    /\ shown.origin = "synthesized"

====
